---- MODULE Spec2Model ----
(***************************************************************************)
(* Model of src/providers/twelve_labs.py (class TwelveLabsHandler).        *)
(*                                                                         *)
(* Three specifications share the module:                                  *)
(*   SpecLLM    - _prompt_llm applied to every provider outcome (a raise   *)
(*                or a response text of bounded length);                   *)
(*   SpecStream - concurrent _process_coroutine tasks pushing into one     *)
(*                asyncio.Queue drained by a consumer;                     *)
(*   SpecGen    - request tasks calling the generate_* coroutines of one   *)
(*                handler instance on one event loop.                      *)
(***************************************************************************)
EXTENDS Integers, Sequences, FiniteSets, TLC

\* ---------------------------------------------------------------- bounds
MaxTextLen == 4      \* longest provider response text, in tokens
MaxChunks == 2       \* most chunks one provider stream yields
MaxQueueSize == 2    \* largest maxsize of the bounded output queue
MaxCalls == 3        \* generate_* calls started in one run

\* ---------------------------------------------------------------- values
None == "None"           \* no value (a string-typed slot)
Unbound == "<unbound>"   \* a string-typed local that was never assigned
PyNone == [kind |-> "None"]            \* Python None as an object
UnboundLocal == [kind |-> "unbound"]   \* a local variable that was never assigned
Str(s) == [kind |-> "str", str |-> s]  \* a Python str object
NoTask == "<no task>"    \* nobody runs on the event-loop thread

VARIABLES
    loopHeldBy,    \* the task executing on the event-loop thread, or NoTask
    \* --- SpecLLM
    llmOutcome,    \* what analyze did: [raised, value]
    llmResult,     \* what _prompt_llm did with it (NoOutcome before the call)
    \* --- SpecStream
    provider,      \* per stream tag: what analyze_stream will do
    maxsize,       \* asyncio.Queue maxsize (0 = unbounded)
    queue,         \* the output queue
    pushed,        \* every message ever put on the queue, in order
    spc,           \* per stream tag: position in _process_coroutine
    sidx,          \* per stream tag: chunks taken from the provider so far
    schunk,        \* per stream tag: local variable chunk
    sexc,          \* per stream tag: local variable e of the except clause
    sout,          \* per stream tag: how the invocation ended
    \* --- SpecGen
    fields,        \* the handler's instance attributes
    gpc,           \* per request task: position
    gop,           \* per request task: generate_* function being run
    garg,          \* per request task: argument chapters (quiz only)
    gres,          \* per request task: outcome of its last provider call
    gout,          \* per request task: outcome of its last generate_* call
    inflight,      \* per request task: where its provider call is executing
    providerCalls, \* per request task: provider calls made by the current call
    lastRet,       \* per feature: value of the last call that returned
    ncalls         \* generate_* calls started so far

llmVars == <<llmOutcome, llmResult>>
streamVars == <<provider, maxsize, queue, pushed, spc, sidx, schunk, sexc, sout>>
genVars == <<fields, gpc, gop, garg, gres, gout, inflight, providerCalls, lastRet, ncalls>>
vars == <<loopHeldBy, llmVars, streamVars, genVars>>

\* ------------------------------------------------------------ exceptions
\* Classes the provider SDK raises; all derive from Exception.
ProviderErrors == {"ApiError", "TimeoutError"}
ExceptionSubclasses == ProviderErrors \cup
    {"UnboundLocalError", "KeyError", "TypeError", "ValueError",
     "ValidationError", "Exception"}

\* `except ApiError as e` in the place of `except Exception as e`
CatchesOnlyApiError(cls) == cls = "ApiError"

\* `except Exception as e`
CatchesException(cls) == cls \in ExceptionSubclasses

\* How a call ends: it raises an exception of class cls with message msg,
\* or it returns value.
Raised(cls, msg) == [raised |-> TRUE, cls |-> cls, msg |-> msg]
Returned(v) == [raised |-> FALSE, value |-> v]
NoOutcome == Returned([kind |-> "nothing yet"])

\* The outcomes of one blocking provider call.
ProviderRaises == {Raised("ApiError", "bad request"), Raised("TimeoutError", "timed out")}

\* ------------------------------------------------- provider response text
\* A response text is a sequence of tokens: "[" "]" "," are JSON
\* punctuation, "g" is a complete item that conforms to the shape's item
\* schema, "b" a complete item that does not, "t" an item cut off by the end
\* of the text, "FJ" the fence ```json and "F" the fence ```.
Tokens == {"[", "]", ",", "g", "b", "t", "FJ", "F"}
Items == {"g", "b"}

TextsUpTo(n) == UNION {[1..k -> Tokens] : k \in 0..n}

\* str.replace(tok, "")
Replace(s, tok) == SelectSeq(s, LAMBDA x : x # tok)

\* response.data.replace("```json", "").replace("```", "")
StripFences(s) == Replace(Replace(s, "FJ"), "F")

ParseError == [ok |-> FALSE, kind |-> "error", items |-> <<>>]
ParsedList(items) == [ok |-> TRUE, kind |-> "list", items |-> items]
ParsedScalar(v) == [ok |-> TRUE, kind |-> "scalar", items |-> <<v>>]

\* pydantic_core.from_json(s, allow_partial=partial): st is the parser's
\* position in the grammar  value ::= item | "[" [item {"," item}] "]".
\* With allow_partial an end of input inside an array returns the items
\* completed so far (an item cut off by the end is dropped); every other
\* syntax error is raised in both modes.
RECURSIVE ParseFrom(_, _, _, _, _)
ParseFrom(s, i, st, items, partial) ==
    IF i > Len(s)
    THEN CASE st = "end" -> ParsedList(items)
           [] st = "scalar" -> ParsedScalar(items[1])
           [] st \in {"open", "item", "comma"} ->
                IF partial THEN ParsedList(items) ELSE ParseError
           [] OTHER -> ParseError
    ELSE LET c == s[i] IN
         CASE st = "start" ->
                IF c = "[" THEN ParseFrom(s, i + 1, "open", <<>>, partial)
                ELSE IF c \in Items THEN ParseFrom(s, i + 1, "scalar", <<c>>, partial)
                ELSE ParseError
           [] st \in {"open", "comma"} ->
                IF c \in Items THEN ParseFrom(s, i + 1, "item", Append(items, c), partial)
                ELSE IF c = "]" /\ st = "open" THEN ParseFrom(s, i + 1, "end", items, partial)
                ELSE IF c = "t" /\ i = Len(s) /\ partial THEN ParsedList(items)
                ELSE ParseError
           [] st = "item" ->
                IF c = "," THEN ParseFrom(s, i + 1, "comma", items, partial)
                ELSE IF c = "]" THEN ParseFrom(s, i + 1, "end", items, partial)
                ELSE ParseError
           [] OTHER -> ParseError   \* trailing characters

FromJson(s, partial) == ParseFrom(s, 1, "start", <<>>, partial)

\* data_schema.model_validate(value): the shape is a list of conforming items
ModelValidate(v) == v.kind = "list" /\ \A i \in 1..Len(v.items) : v.items[i] = "g"

\* validated_data.model_dump()
ModelDump(v) == [kind |-> "mapping", dump |-> v.items]

\* The provider's response object; _prompt_llm returns it as it is on failure.
Response(text) == [kind |-> "response", data |-> text]

\* --------------------------------------------------------- _prompt_llm
\* The body of _prompt_llm after `await asyncio.to_thread(analyze, ...)`
\* produced outcome res.  The local `response` is bound only when the call
\* returned; `return response` in the except clause raises UnboundLocalError
\* when it is not.
\* _prompt_llm without the model_validate step
PromptLLMDropsValidation(res) ==
    IF res.raised THEN Raised("UnboundLocalError", "response")
    ELSE LET parsed == FromJson(StripFences(res.value.data), TRUE) IN
         IF parsed.ok THEN Returned(ModelDump(parsed)) ELSE Returned(res.value)

PromptLLM(res) ==
    LET response == IF res.raised THEN UnboundLocal ELSE res.value
        handler == IF response.kind = "unbound"
                   THEN Raised("UnboundLocalError", "response")
                   ELSE Returned(response)
    IN  IF res.raised
        THEN IF CatchesException(res.cls) THEN handler ELSE res
        ELSE LET parsed == FromJson(StripFences(response.data), TRUE) IN
             IF ~parsed.ok THEN handler              \* from_json raised ValueError
             ELSE IF ~ModelValidate(parsed) THEN handler   \* ValidationError
             ELSE Returned(ModelDump(parsed))

\* ------------------------------------------------------------- SpecLLM
AnalyzeOutcomes(n) == ProviderRaises \cup {Returned(Response(t)) : t \in TextsUpTo(n)}

LLMInit ==
    /\ llmOutcome \in AnalyzeOutcomes(MaxTextLen)
    /\ llmResult = NoOutcome

LLMUnused ==
    /\ llmOutcome = NoOutcome
    /\ llmResult = NoOutcome

\* One call of _prompt_llm on the outcome of analyze.
CallPromptLLM ==
    /\ llmResult = NoOutcome
    /\ llmResult' = PromptLLM(llmOutcome)
    /\ UNCHANGED <<loopHeldBy, llmOutcome, streamVars, genVars>>

\* ----------------------------------------------------- _process_coroutine
Tags == {"summary", "chapters"}     \* stream_type of the concurrent streams
Chunks == {"a", "b"}

JsonNull == "null"

\* json.dumps of a dict given as its members in insertion order
JsonDumps(members) ==
    [i \in DOMAIN members |->
        <<members[i][1], IF members[i][2] = None THEN JsonNull ELSE members[i][2]>>]

\* json.loads(text)[key], or None when the object has no such member
Member(text, key) ==
    IF \E i \in DOMAIN text : text[i][1] = key
    THEN text[CHOOSE i \in DOMAIN text : text[i][1] = key][2]
    ELSE None

\* the envelope with a fixed tag in the place of stream_type
InProgressEnvelopeFixedType(stream_type, chunk) ==
    JsonDumps(<< <<"type", "summary">>, <<"content", chunk>>,
                 <<"status", "in_progress">> >>)

InProgressEnvelope(stream_type, chunk) ==
    JsonDumps(<< <<"type", stream_type>>, <<"content", chunk>>,
                 <<"status", "in_progress">> >>)

CompleteEnvelope(stream_type) ==
    JsonDumps(<< <<"type", stream_type>>, <<"chunk", None>>,
                 <<"status", "complete">> >>)

ErrorEnvelope(stream_type, e) ==
    JsonDumps(<< <<"type", stream_type>>, <<"chunk", None>>,
                 <<"status", "error">>, <<"error", e>> >>)

\* What analyze_stream does for one stream: the call itself raises
\* (fail = "create"), or it yields chunks and then ends (fail = "none") or
\* raises (fail = "iter").
ChunkSeqs(n) == UNION {[1..k -> Chunks] : k \in 0..n}

ProviderStreams(n) ==
    {[chunks |-> c, fail |-> "none", error |-> NoOutcome] : c \in ChunkSeqs(n)}
    \cup {[chunks |-> c, fail |-> "iter", error |-> e] :
             c \in ChunkSeqs(n), e \in ProviderRaises}
    \cup {[chunks |-> <<>>, fail |-> "create", error |-> e] : e \in ProviderRaises}

\* asyncio.Queue.full()
Full == maxsize > 0 /\ Len(queue) >= maxsize

StreamInit ==
    /\ provider \in [Tags -> ProviderStreams(MaxChunks)]
    /\ maxsize \in 0..MaxQueueSize
    /\ queue = <<>>
    /\ pushed = <<>>
    /\ spc = [t \in Tags |-> "start"]
    /\ sidx = [t \in Tags |-> 0]
    /\ schunk = [t \in Tags |-> Unbound]
    /\ sexc = [t \in Tags |-> Unbound]
    /\ sout = [t \in Tags |-> None]

StreamUnused ==
    /\ provider = None
    /\ maxsize = 0
    /\ queue = <<>>
    /\ pushed = <<>>
    /\ spc = None
    /\ sidx = None
    /\ schunk = None
    /\ sexc = None
    /\ sout = None

\* An exception e raised inside the try block of _process_coroutine: the
\* except clause takes it, or it leaves the coroutine.
StreamRaise(t, e) ==
    IF CatchesException(e.cls)
    THEN /\ sexc' = [sexc EXCEPT ![t] = e.msg]
         /\ spc' = [spc EXCEPT ![t] = "put_error"]
         /\ loopHeldBy' = t
         /\ sout' = sout
    ELSE /\ sexc' = sexc
         /\ spc' = [spc EXCEPT ![t] = "done"]
         /\ loopHeldBy' = NoTask
         /\ sout' = [sout EXCEPT ![t] = "raised"]

\* coroutine = self.twelve_labs_client.analyze_stream(...)
AnalyzeStream(t) ==
    /\ spc[t] = "start"
    /\ loopHeldBy = NoTask
    /\ IF provider[t].fail = "create"
       THEN StreamRaise(t, provider[t].error)
       ELSE /\ spc' = [spc EXCEPT ![t] = "iter"]
            /\ loopHeldBy' = t
            /\ UNCHANGED <<sexc, sout>>
    /\ UNCHANGED <<provider, maxsize, queue, pushed, sidx, schunk, llmVars, genVars>>

\* for chunk in coroutine: the provider yields the next chunk
NextChunk(t) ==
    /\ spc[t] = "iter"
    /\ loopHeldBy = t
    /\ sidx[t] < Len(provider[t].chunks)
    /\ sidx' = [sidx EXCEPT ![t] = @ + 1]
    /\ schunk' = [schunk EXCEPT ![t] = provider[t].chunks[sidx[t] + 1]]
    /\ spc' = [spc EXCEPT ![t] = "put_chunk"]
    /\ UNCHANGED <<loopHeldBy, provider, maxsize, queue, pushed, sexc, sout, llmVars, genVars>>

\* the coroutine returning at the end of the loop, without the complete envelope
StreamEndsWithoutComplete(t) ==
    /\ spc[t] = "iter"
    /\ loopHeldBy = t
    /\ sidx[t] = Len(provider[t].chunks)
    /\ provider[t].fail = "none"
    /\ spc' = [spc EXCEPT ![t] = "done"]
    /\ sout' = [sout EXCEPT ![t] = "returned"]
    /\ loopHeldBy' = NoTask
    /\ UNCHANGED <<provider, maxsize, queue, pushed, sidx, schunk, sexc, llmVars, genVars>>

\* for chunk in coroutine: the provider stream ends
StreamEnds(t) ==
    /\ spc[t] = "iter"
    /\ loopHeldBy = t
    /\ sidx[t] = Len(provider[t].chunks)
    /\ provider[t].fail = "none"
    /\ spc' = [spc EXCEPT ![t] = "put_complete"]
    /\ UNCHANGED <<loopHeldBy, provider, maxsize, queue, pushed, sidx, schunk, sexc, sout, llmVars, genVars>>

\* for chunk in coroutine: the provider stream raises
StreamFails(t) ==
    /\ spc[t] = "iter"
    /\ loopHeldBy = t
    /\ sidx[t] = Len(provider[t].chunks)
    /\ provider[t].fail = "iter"
    /\ StreamRaise(t, provider[t].error)
    /\ UNCHANGED <<provider, maxsize, queue, pushed, sidx, schunk, llmVars, genVars>>

\* await output_queue.put(...) finds the queue full: the task is suspended
\* and the event loop runs something else.
PutSuspends(t) ==
    /\ spc[t] \in {"put_chunk", "put_complete", "put_error"}
    /\ loopHeldBy = t
    /\ Full
    /\ loopHeldBy' = NoTask
    /\ UNCHANGED <<streamVars, llmVars, genVars>>

\* The task can put: it is running, or it was suspended in put and the
\* event loop is free to resume it.
CanPut(t) == (loopHeldBy = t \/ loopHeldBy = NoTask) /\ ~Full

Put(msg) ==
    /\ queue' = Append(queue, msg)
    /\ pushed' = Append(pushed, msg)

\* await output_queue.put(json.dumps({... 'status': 'in_progress'}))
PutInProgress(t) ==
    /\ spc[t] = "put_chunk"
    /\ CanPut(t)
    /\ Put(InProgressEnvelope(t, schunk[t]))
    /\ spc' = [spc EXCEPT ![t] = "iter"]
    /\ loopHeldBy' = t
    /\ UNCHANGED <<provider, maxsize, sidx, schunk, sexc, sout, llmVars, genVars>>

\* await output_queue.put(json.dumps({... 'status': 'complete'})), return
PutComplete(t) ==
    /\ spc[t] = "put_complete"
    /\ CanPut(t)
    /\ Put(CompleteEnvelope(t))
    /\ spc' = [spc EXCEPT ![t] = "done"]
    /\ sout' = [sout EXCEPT ![t] = "returned"]
    /\ loopHeldBy' = NoTask
    /\ UNCHANGED <<provider, maxsize, sidx, schunk, sexc, llmVars, genVars>>

\* the error envelope followed by the complete envelope (the completion put
\* placed after the try statement instead of inside it)
PutErrorThenComplete(t) ==
    /\ spc[t] = "put_error"
    /\ CanPut(t)
    /\ Put(ErrorEnvelope(t, sexc[t]))
    /\ spc' = [spc EXCEPT ![t] = "put_complete"]
    /\ loopHeldBy' = t
    /\ UNCHANGED <<provider, maxsize, sidx, schunk, sexc, sout, llmVars, genVars>>

\* except Exception as e: await output_queue.put(json.dumps({... 'error'}))
PutError(t) ==
    /\ spc[t] = "put_error"
    /\ CanPut(t)
    /\ Put(ErrorEnvelope(t, sexc[t]))
    /\ spc' = [spc EXCEPT ![t] = "done"]
    /\ sout' = [sout EXCEPT ![t] = "returned"]
    /\ loopHeldBy' = NoTask
    /\ UNCHANGED <<provider, maxsize, sidx, schunk, sexc, llmVars, genVars>>

\* The queue consumer, a task of the same event loop: await queue.get()
ConsumerGet ==
    /\ loopHeldBy = NoTask
    /\ queue # <<>>
    /\ queue' = Tail(queue)
    /\ UNCHANGED <<loopHeldBy, provider, maxsize, pushed, spc, sidx, schunk, sexc, sout, llmVars, genVars>>

\* ------------------------------------------------------------ generate_*
GTasks == {"r1", "r2"}      \* request tasks sharing the handler

PromptOps == {"generate_chapters", "generate_key_takeaways",
              "generate_pacing_recommendations", "generate_engagement"}
Ops == PromptOps \cup {"generate_quiz_questions", "generate_summary", "generate_gist"}

\* The attribute a generate_* function assigns its result to.
FieldOf(op) ==
    CASE op = "generate_chapters" -> "chapters"
      [] op = "generate_key_takeaways" -> "key_takeaways"
      [] op = "generate_pacing_recommendations" -> "pacing_recommendations"
      [] op = "generate_engagement" -> "engagement"
      [] op = "generate_quiz_questions" -> "quiz_questions"

\* __init__: the attributes set to None; engagement is not created there.
InitFieldNames == {"title", "hashtags", "topics", "summary", "key_takeaways",
                   "pacing_recommendations", "chapters", "quiz_questions",
                   "flashcards"}
Absent == [kind |-> "absent"]
InitFields ==
    [f \in InitFieldNames \cup {"engagement"} |->
        IF f \in InitFieldNames THEN PyNone ELSE Absent]

\* Response texts analyze answers with: fenced well-formed JSON of the shape,
\* JSON of the shape cut off before its end, and well-formed JSON that is
\* not of the shape.
GenTexts == { <<"FJ", "[", "g", "]", "F">>, <<"[", "g", ",", "g">>, <<"[", "b", "]">> }
AnalyzeResults == ProviderRaises \cup {Returned(Response(t)) : t \in GenTexts}

SummarizeResults == ProviderRaises \cup
    {Returned([kind |-> "summary_result", summary |-> Str(x)]) : x \in {"s1", "s2"}}

GistResults == ProviderRaises \cup
    {Returned([kind |-> "gist_result", title |-> Str(g[1]), hashtags |-> Str(g[2]),
               topics |-> Str(g[3])]) :
        g \in {<<"T1", "#h1", "p1">>, <<"T2", "#h2", "p2">>}}

\* Arguments generate_quiz_questions is called with.
List(items) == [kind |-> "list", items |-> items]
FullChapter == [title |-> "c1", summary |-> "about c1"]
QuizArgs == {PyNone, List(<<>>), Str("chapters"), Str(""), [kind |-> "int", int |-> 0],
             List(<<FullChapter>>),
             List(<<FullChapter, [title |-> "c2"]>>),
             List(<<[summary |-> "about c3"]>>)}

\* bool(x)
Truthy(x) ==
    CASE x.kind = "None" -> FALSE
      [] x.kind = "list" -> Len(x.items) > 0
      [] x.kind = "str" -> x.str # ""
      [] x.kind = "int" -> x.int # 0
      [] OTHER -> TRUE

\* isinstance(chapters, list)
IsList(x) == x.kind = "list"

\* the guard without its emptiness tests: if not isinstance(chapters, list): raise
ChaptersAcceptedAnyList(chapters) == IsList(chapters)

\* The guard of generate_quiz_questions lets the call go on:
\* if not chapters or not isinstance(chapters, list) or len(chapters) == 0: raise

ChaptersAccepted(chapters) ==
    ~(~Truthy(chapters) \/ ~IsList(chapters) \/ Len(chapters.items) = 0)

\* [f"{chapter['title']}: {chapter['summary']}" for chapter in chapters]
\* evaluates without a KeyError
ChaptersStringBuilds(chapters) ==
    \A i \in 1..Len(chapters.items) :
        {"title", "summary"} \subseteq DOMAIN chapters.items[i]

\* The code of generate_quiz_questions before its try block.
QuizPrelude(chapters) ==
    IF ~ChaptersAccepted(chapters)
    THEN Raised("Exception", "Chapters must be a non-empty list")
    ELSE IF ~ChaptersStringBuilds(chapters)
    THEN Raised("KeyError", "title or summary")
    ELSE NoOutcome

\* The body shared by generate_chapters, generate_key_takeaways,
\* generate_pacing_recommendations, generate_quiz_questions and
\* generate_engagement once the analyze call ended with res:
\*   try: raw = await self._prompt_llm(...); self.<field> = raw; return raw
\*   except Exception as e: print(...); return raw
\* out is how the call ends, assign tells whether self.<field> was assigned.
GenerateFeature(res) ==
    LET r == PromptLLM(res)
        raw == IF r.raised THEN UnboundLocal ELSE r.value
    IN  IF ~r.raised
        THEN [out |-> Returned(raw), assign |-> TRUE, value |-> raw]
        ELSE IF ~CatchesException(r.cls)
        THEN [out |-> r, assign |-> FALSE, value |-> raw]
        ELSE IF raw.kind = "unbound"
        THEN [out |-> Raised("UnboundLocalError", "raw"), assign |-> FALSE, value |-> raw]
        ELSE [out |-> Returned(raw), assign |-> FALSE, value |-> raw]

\* generate_summary once the summarize call ended with res
GenerateSummaryResult(res) ==
    IF res.raised
    THEN IF CatchesException(res.cls)
         THEN Raised("Exception", <<"Error generating summary: ", res.msg>>)
         ELSE res
    ELSE Returned([kind |-> "dict", summary |-> res.value.summary])

\* generate_gist failing open like the generate_<feature> functions
GenerateGistSwallows(res) ==
    IF res.raised
    THEN [out |-> Returned(PyNone), assign |-> FALSE]
    ELSE [out |-> Returned([kind |-> "dict", title |-> res.value.title,
                            hashtags |-> res.value.hashtags,
                            topics |-> res.value.topics]),
          assign |-> TRUE]

\* generate_gist once the gist call ended with res: out is how the call
\* ends, assign tells whether title, hashtags and topics were assigned.
GenerateGistResult(res) ==
    IF res.raised
    THEN [out |-> IF CatchesException(res.cls)
                  THEN Raised("Exception", <<"Error generating gist: ", res.msg>>)
                  ELSE res,
          assign |-> FALSE]
    ELSE [out |-> Returned([kind |-> "dict", title |-> res.value.title,
                            hashtags |-> res.value.hashtags,
                            topics |-> res.value.topics]),
          assign |-> TRUE]

GenInit ==
    /\ fields = InitFields
    /\ gpc = [t \in GTasks |-> "idle"]
    /\ gop = [t \in GTasks |-> None]
    /\ garg = [t \in GTasks |-> PyNone]
    /\ gres = [t \in GTasks |-> NoOutcome]
    /\ gout = [t \in GTasks |-> NoOutcome]
    /\ inflight = [t \in GTasks |-> "none"]
    /\ providerCalls = [t \in GTasks |-> 0]
    /\ lastRet = [op \in Ops |-> PyNone]
    /\ ncalls = 0

GenUnused ==
    /\ fields = None
    /\ gpc = None
    /\ gop = None
    /\ garg = None
    /\ gres = None
    /\ gout = None
    /\ inflight = None
    /\ providerCalls = None
    /\ lastRet = None
    /\ ncalls = 0

\* A request task calls a generate_* function: the event loop is free to
\* run it and the task is not inside another call.
CanCall(t) ==
    /\ gpc[t] = "idle"
    /\ loopHeldBy = NoTask
    /\ ncalls < MaxCalls

\* The call runs up to `await asyncio.to_thread(fn, ...)`: the provider
\* call goes to a worker thread and the task is suspended.
ToThread(t, op, arg) ==
    /\ gop' = [gop EXCEPT ![t] = op]
    /\ garg' = [garg EXCEPT ![t] = arg]
    /\ gpc' = [gpc EXCEPT ![t] = "await"]
    /\ inflight' = [inflight EXCEPT ![t] = "worker"]
    /\ providerCalls' = [providerCalls EXCEPT ![t] = 1]
    /\ gres' = [gres EXCEPT ![t] = NoOutcome]
    /\ gout' = [gout EXCEPT ![t] = NoOutcome]
    /\ ncalls' = ncalls + 1
    /\ UNCHANGED <<loopHeldBy, fields, lastRet>>

\* generate_chapters, generate_key_takeaways, generate_pacing_recommendations
\* and generate_engagement up to the await in _prompt_llm
GeneratePrompted(t, op) ==
    /\ CanCall(t)
    /\ ToThread(t, op, PyNone)
    /\ UNCHANGED <<llmVars, streamVars>>

GenerateChapters(t) == GeneratePrompted(t, "generate_chapters")
GenerateKeyTakeaways(t) == GeneratePrompted(t, "generate_key_takeaways")
GeneratePacingRecommendations(t) == GeneratePrompted(t, "generate_pacing_recommendations")
GenerateEngagement(t) == GeneratePrompted(t, "generate_engagement")

\* generate_quiz_questions(chapters) up to the await in _prompt_llm, or up
\* to the exception its prelude raises
GenerateQuizQuestions(t, chapters) ==
    /\ CanCall(t)
    /\ IF QuizPrelude(chapters).raised
       THEN /\ gop' = [gop EXCEPT ![t] = "generate_quiz_questions"]
            /\ garg' = [garg EXCEPT ![t] = chapters]
            /\ gout' = [gout EXCEPT ![t] = QuizPrelude(chapters)]
            /\ gres' = [gres EXCEPT ![t] = NoOutcome]
            /\ providerCalls' = [providerCalls EXCEPT ![t] = 0]
            /\ ncalls' = ncalls + 1
            /\ UNCHANGED <<loopHeldBy, fields, lastRet, gpc, inflight>>
       ELSE ToThread(t, "generate_quiz_questions", chapters)
    /\ UNCHANGED <<llmVars, streamVars>>

\* generate_summary up to `await asyncio.to_thread(summarize, ...)`
GenerateSummary(t) ==
    /\ CanCall(t)
    /\ ToThread(t, "generate_summary", PyNone)
    /\ UNCHANGED <<llmVars, streamVars>>

\* generate_gist up to self.twelve_labs_client.gist(...), which is called
\* on the event-loop thread itself
GenerateGist(t) ==
    /\ CanCall(t)
    /\ gop' = [gop EXCEPT ![t] = "generate_gist"]
    /\ garg' = [garg EXCEPT ![t] = PyNone]
    /\ gpc' = [gpc EXCEPT ![t] = "blocking"]
    /\ inflight' = [inflight EXCEPT ![t] = "loop"]
    /\ loopHeldBy' = t
    /\ providerCalls' = [providerCalls EXCEPT ![t] = 1]
    /\ gres' = [gres EXCEPT ![t] = NoOutcome]
    /\ gout' = [gout EXCEPT ![t] = NoOutcome]
    /\ ncalls' = ncalls + 1
    /\ UNCHANGED <<fields, lastRet, llmVars, streamVars>>

ResultsOf(op) ==
    CASE op = "generate_summary" -> SummarizeResults
      [] op = "generate_gist" -> GistResults
      [] OTHER -> AnalyzeResults

\* The provider call a worker thread runs comes to its end; the awaiting
\* task becomes ready.  This needs no event loop.
WorkerFinishes(t) ==
    /\ gpc[t] = "await"
    /\ \E res \in ResultsOf(gop[t]) : gres' = [gres EXCEPT ![t] = res]
    /\ gpc' = [gpc EXCEPT ![t] = "ready"]
    /\ inflight' = [inflight EXCEPT ![t] = "none"]
    /\ UNCHANGED <<loopHeldBy, fields, gop, garg, gout, providerCalls, lastRet, ncalls,
                   llmVars, streamVars>>

\* The call ends with outcome out.
Finish(t, out) ==
    /\ gout' = [gout EXCEPT ![t] = out]
    /\ gpc' = [gpc EXCEPT ![t] = "idle"]
    /\ lastRet' = IF out.raised THEN lastRet ELSE [lastRet EXCEPT ![gop[t]] = out.value]

\* The event loop resumes a generate_<feature> call after its await; the
\* call runs to its end.
ResumeFeature(t) ==
    /\ gpc[t] = "ready"
    /\ gop[t] \in PromptOps \cup {"generate_quiz_questions"}
    /\ loopHeldBy = NoTask
    /\ LET g == GenerateFeature(gres[t]) IN
         /\ fields' = IF g.assign THEN [fields EXCEPT ![FieldOf(gop[t])] = g.value]
                      ELSE fields
         /\ Finish(t, g.out)
    /\ UNCHANGED <<loopHeldBy, gop, garg, gres, inflight, providerCalls, ncalls,
                   llmVars, streamVars>>

\* The event loop resumes generate_summary after its await.
ResumeSummary(t) ==
    /\ gpc[t] = "ready"
    /\ gop[t] = "generate_summary"
    /\ loopHeldBy = NoTask
    /\ Finish(t, GenerateSummaryResult(gres[t]))
    /\ UNCHANGED <<loopHeldBy, fields, gop, garg, gres, inflight, providerCalls, ncalls,
                   llmVars, streamVars>>

\* The gist call made on the event-loop thread comes to its end and
\* generate_gist runs to its end.
GistCallEnds(t) ==
    /\ gpc[t] = "blocking"
    /\ loopHeldBy = t
    /\ \E res \in GistResults :
         LET g == GenerateGistResult(res) IN
           /\ gres' = [gres EXCEPT ![t] = res]
           /\ fields' = IF g.assign
                        THEN [fields EXCEPT !["title"] = res.value.title,
                                            !["hashtags"] = res.value.hashtags,
                                            !["topics"] = res.value.topics]
                        ELSE fields
           /\ Finish(t, g.out)
    /\ inflight' = [inflight EXCEPT ![t] = "none"]
    /\ loopHeldBy' = NoTask
    /\ UNCHANGED <<gop, garg, providerCalls, ncalls, llmVars, streamVars>>

\* ------------------------------------------------------- specifications
InitLLM == loopHeldBy = NoTask /\ LLMInit /\ StreamUnused /\ GenUnused
NextLLM == CallPromptLLM
SpecLLM == InitLLM /\ [][NextLLM]_vars

InitStream == loopHeldBy = NoTask /\ LLMUnused /\ StreamInit /\ GenUnused
NextStream ==
    \/ \E t \in Tags : AnalyzeStream(t)
    \/ \E t \in Tags : NextChunk(t)
    \/ \E t \in Tags : StreamEnds(t)
    \/ \E t \in Tags : StreamFails(t)
    \/ \E t \in Tags : PutSuspends(t)
    \/ \E t \in Tags : PutInProgress(t)
    \/ \E t \in Tags : PutComplete(t)
    \/ \E t \in Tags : PutError(t)
    \/ ConsumerGet
SpecStream == InitStream /\ [][NextStream]_vars

InitGen == loopHeldBy = NoTask /\ LLMUnused /\ StreamUnused /\ GenInit
NextGen ==
    \/ \E t \in GTasks : GenerateChapters(t)
    \/ \E t \in GTasks : GenerateKeyTakeaways(t)
    \/ \E t \in GTasks : GeneratePacingRecommendations(t)
    \/ \E t \in GTasks : GenerateEngagement(t)
    \/ \E t \in GTasks : \E chapters \in QuizArgs : GenerateQuizQuestions(t, chapters)
    \/ \E t \in GTasks : GenerateSummary(t)
    \/ \E t \in GTasks : GenerateGist(t)
    \/ \E t \in GTasks : WorkerFinishes(t)
    \/ \E t \in GTasks : ResumeFeature(t)
    \/ \E t \in GTasks : ResumeSummary(t)
    \/ \E t \in GTasks : GistCallEnds(t)
SpecGen == InitGen /\ [][NextGen]_vars

\* ------------------------------------------------- streaming properties
\* The messages with stream_type t among seq, in order
OfType(seq, t) == SelectSeq(seq, LAMBDA m : Member(m, "type") = t)

Status(m) == Member(m, "status")

\* m is the in-progress envelope of chunk c
IsInProgress(m, c) == Status(m) = "in_progress" /\ Member(m, "content") = c

IsPrefix(a, b) == Len(a) <= Len(b) /\ \A i \in 1..Len(a) : a[i] = b[i]

\* C1: an invocation whose provider stream yields N chunks and does not
\* raise puts N in-progress envelopes carrying the chunks in emission
\* order, then one complete envelope, and nothing else.
C1_ChunksThenComplete ==
    \A t \in Tags :
        provider[t].fail = "none" =>
            LET s == OfType(pushed, t)
                n == Len(provider[t].chunks)
            IN  /\ Len(s) <= n + 1
                /\ \A i \in 1..Len(s) :
                     IF i <= n THEN IsInProgress(s[i], provider[t].chunks[i])
                     ELSE Status(s[i]) = "complete"
                /\ spc[t] = "done" => Len(s) = n + 1

C1_Witness ==
    \E t \in Tags :
        /\ provider[t].fail = "none"
        /\ Len(provider[t].chunks) = MaxChunks
        /\ provider[t].chunks[1] # provider[t].chunks[2]
        /\ spc[t] = "done"
        /\ Len(OfType(pushed, t)) = MaxChunks + 1

\* the messages of a failing stream, at every moment
C2_StateAfterFailure ==
    \A t \in Tags :
        provider[t].fail # "none" =>
            LET s == OfType(pushed, t)
                k == Len(provider[t].chunks)
            IN  /\ Len(s) <= k + 1
                /\ \A i \in 1..Len(s) :
                     IF i <= k THEN IsInProgress(s[i], provider[t].chunks[i])
                     ELSE /\ Status(s[i]) = "error"
                          /\ Member(s[i], "error") = provider[t].error.msg
                /\ spc[t] = "done" => Len(s) = k + 1

\* a step appends to the queue, or is the consumer taking its head
C2_QueueKept ==
    \/ IsPrefix(queue, queue')
    \/ queue # <<>> /\ queue' = Tail(queue) /\ pushed' = pushed

\* C2: an invocation whose provider stream raises after K chunks (or whose
\* analyze_stream call raises, K = 0) puts the K in-progress envelopes in
\* order, then one error envelope carrying the exception message, nothing
\* else and no complete envelope; what is already on the queue is neither
\* removed nor altered by a producer.
C2_ChunksThenError == []C2_StateAfterFailure /\ [][C2_QueueKept]_vars

C2_Witness ==
    \E t \in Tags :
        /\ provider[t].fail = "iter"
        /\ Len(provider[t].chunks) = MaxChunks
        /\ spc[t] = "done"
        /\ Len(OfType(pushed, t)) = MaxChunks + 1
        /\ Len(queue) >= 2

\* C6: an invocation never ends by raising into its task: whatever the
\* provider stream does, it returns, and a failure shows as the error
\* envelope that is the last message of the stream.
C6_NeverRaises ==
    \A t \in Tags :
        /\ sout[t] # "raised"
        /\ spc[t] = "done" =>
             /\ sout[t] = "returned"
             /\ LET s == OfType(pushed, t) IN
                  /\ s # <<>>
                  /\ (Status(s[Len(s)]) = "error") <=> (provider[t].fail # "none")

C6_Witness ==
    /\ \A t \in Tags : spc[t] = "done" /\ sout[t] = "returned"
    /\ \E t \in Tags : provider[t].fail = "create"
    /\ \E t \in Tags : provider[t].fail = "iter" /\ provider[t].error.cls = "TimeoutError"

\* C10: with several invocations pushing into the shared queue, the
\* messages of each tag are that stream's in-progress envelopes in emission
\* order, closed by one terminal envelope exactly when the invocation has
\* ended, and nothing of that tag follows the terminal envelope.
Terminal(m) == Status(m) \in {"complete", "error"}

C10_PerTagOrder ==
    \A t \in Tags :
        LET s == OfType(pushed, t) IN
          /\ \A i \in 1..Len(s) :
               /\ Terminal(s[i]) => i = Len(s)
               /\ ~Terminal(s[i]) =>
                    /\ i <= Len(provider[t].chunks)
                    /\ IsInProgress(s[i], provider[t].chunks[i])
          /\ (spc[t] = "done") <=> (s # <<>> /\ Terminal(s[Len(s)]))

\* the two streams' messages are interleaved on the queue
C10_Witness ==
    /\ \A t \in Tags : spc[t] = "done"
    /\ \E i, j, k \in 1..Len(pushed) :
         /\ i < j /\ j < k
         /\ Member(pushed[i], "type") = Member(pushed[k], "type")
         /\ Member(pushed[i], "type") # Member(pushed[j], "type")
         /\ Status(pushed[i]) = "in_progress"
         /\ Status(pushed[j]) = "in_progress"

\* ------------------------------------------------ _prompt_llm properties
LLMCalled == llmResult # NoOutcome

\* the text as _prompt_llm parses it
Cleaned == StripFences(llmOutcome.value.data)

\* C5 as stated: when analyze returns a response whose text is malformed
\* JSON or fails validation against the shape, _prompt_llm returns the raw
\* response object.
C5_MalformedReturnsRaw ==
    (LLMCalled /\ ~llmOutcome.raised
       /\ (~FromJson(Cleaned, FALSE).ok \/ ~ModelValidate(FromJson(Cleaned, FALSE))))
    => llmResult = Returned(llmOutcome.value)

\* C5 amended: when analyze returns a response whose text the permissive
\* parser rejects (it is malformed otherwise than by being cut off inside an
\* array), or whose permissively parsed value fails validation, _prompt_llm
\* returns the raw response object without raising.
C5_UnparsableReturnsRaw ==
    (LLMCalled /\ ~llmOutcome.raised
       /\ (~FromJson(Cleaned, TRUE).ok \/ ~ModelValidate(FromJson(Cleaned, TRUE))))
    => llmResult = Returned(llmOutcome.value)

C5_Witness ==
    /\ LLMCalled
    /\ ~llmOutcome.raised
    /\ FromJson(Cleaned, TRUE).ok
    /\ ~ModelValidate(FromJson(Cleaned, TRUE))
    /\ Len(FromJson(Cleaned, TRUE).items) >= 1
    /\ Cleaned # llmOutcome.value.data
    /\ llmResult = Returned(llmOutcome.value)

\* ------------------------------------------------- generate_* properties
Quiz == "generate_quiz_questions"

\* the arguments C3 speaks of: None, an empty list, a non-list, or a list
\* with a chapter record lacking title or summary
BadChapters(a) ==
    \/ a.kind # "list"
    \/ Len(a.items) = 0
    \/ \E i \in 1..Len(a.items) : ~({"title", "summary"} \subseteq DOMAIN a.items[i])

C3_State ==
    \A t \in GTasks :
        (gop[t] = Quiz /\ BadChapters(garg[t])) =>
            /\ gpc[t] = "idle"
            /\ gout[t].raised
            /\ providerCalls[t] = 0
            /\ inflight[t] = "none"

C3_Step ==
    (/\ ncalls' = ncalls + 1
     /\ \E t \in GTasks : gpc[t] = "idle" /\ gop'[t] = Quiz /\ BadChapters(garg'[t]))
    => fields' = fields

\* C3: generate_quiz_questions called with None, an empty list, a non-list
\* or a list with a chapter record lacking title or summary raises before
\* any provider call is made and leaves quiz_questions unchanged.
C3_BadChaptersFailFast == []C3_State /\ [][C3_Step]_vars

C3_Witness ==
    /\ fields["quiz_questions"] # PyNone
    /\ \E t \in GTasks :
         /\ gop[t] = Quiz
         /\ garg[t].kind = "list"
         /\ Len(garg[t].items) = 2
         /\ BadChapters(garg[t])
         /\ gout[t].raised

\* C4: a fail-open generate_<feature> call (generate_quiz_questions with a
\* valid chapter list) never ends by raising, whatever analyze did.
C4_FailOpenNeverRaises ==
    \A t \in GTasks :
        (/\ gop[t] \in PromptOps \cup {Quiz}
         /\ gpc[t] = "idle"
         /\ gop[t] = Quiz => ~BadChapters(garg[t]))
        => ~gout[t].raised

C7_State ==
    \A t \in GTasks :
        (gop[t] \in {"generate_summary", "generate_gist"} /\ gpc[t] = "idle"
           /\ gres[t].raised)
        => gout[t].raised

C7_Step ==
    \A t \in GTasks :
        (gop[t] = "generate_gist" /\ gpc[t] = "blocking" /\ gpc'[t] = "idle"
           /\ gres'[t].raised)
        => fields' = fields

\* C7: generate_summary and generate_gist end by raising whenever their
\* provider call raised, and generate_gist then leaves title, hashtags and
\* topics as they were.
C7_SummaryGistPropagate == []C7_State /\ [][C7_Step]_vars

C7_Witness ==
    /\ fields["title"] # PyNone
    /\ \E t \in GTasks :
         gop[t] = "generate_gist" /\ gpc[t] = "idle" /\ gres[t].raised /\ gout[t].raised
    /\ \E t \in GTasks :
         gop[t] = "generate_summary" /\ gpc[t] = "idle" /\ gres[t].raised /\ gout[t].raised

\* C8: while a provider call of a generate_* operation is in flight it runs
\* on a worker thread and the event loop is free to run another task.
C8_LoopFreeDuringProviderCall ==
    \A t \in GTasks :
        inflight[t] # "none" => (inflight[t] = "worker" /\ loopHeldBy = NoTask)

\* C9: each feature's attribute holds the value returned by the last call
\* of its generate_* function that returned, and None when there is none.
C9_FieldsCacheLastReturn ==
    /\ \A op \in {"generate_chapters", "generate_key_takeaways",
                  "generate_pacing_recommendations", Quiz} :
         fields[FieldOf(op)] = lastRet[op]
    /\ fields["summary"] = IF lastRet["generate_summary"].kind = "None" THEN PyNone
                           ELSE lastRet["generate_summary"].summary
    /\ LET g == lastRet["generate_gist"] IN
         /\ fields["title"] = IF g.kind = "None" THEN PyNone ELSE g.title
         /\ fields["hashtags"] = IF g.kind = "None" THEN PyNone ELSE g.hashtags
         /\ fields["topics"] = IF g.kind = "None" THEN PyNone ELSE g.topics
    /\ fields["flashcards"] = PyNone

====
